---------------------------- MODULE Spec2Model ----------------------------
(***************************************************************************)
(* Model of the ML verification engine of the Blue Carbon MRV backend      *)
(* (src/ml_verification.py): the staged model load of                      *)
(* MLVerificationEngine.__init__, feature extraction, the rule-based       *)
(* fallback scorer and predict_quality_score.                              *)
(*                                                                         *)
(* Numbers.  Every Python float or int is a fixed-point integer in units   *)
(* of 1/10000 (Unit): 5.5 is 55000, 100.0 is 1000000.  round(x, 2) is      *)
(* Round2, the nearest multiple of 0.01.                                    *)
(*                                                                         *)
(* Strings.  A Python str is a sequence of one-character strings, so that  *)
(* lower(), the `in` substring test, float() and the regular expressions   *)
(* are computed character by character.  "deg" stands for the one          *)
(* character of the degree sign.                                           *)
(*                                                                         *)
(* Python values are tagged records: PyNone, PyStr, PyInt, PyFloat,        *)
(* PyDict, PyList.  Operations that may raise return Ok(v) or Err(e), e    *)
(* the name of the exception class.                                        *)
(***************************************************************************)
EXTENDS Integers, Sequences, FiniteSets, TLC

VARIABLES
    pc,                 \* position of MLVerificationEngine.__init__
    model,              \* self.model
    model_available,    \* self.model_available
    ecosystem_mapping,  \* self.ecosystem_mapping
    feature_names,      \* self.feature_names
    attempts,           \* the pickle.load modes tried so far, in order
    call,               \* per caller: the predict_quality_score call in flight
    returned,           \* the call that returned last, with its result
    features,           \* a feature mapping given to _calculate_fallback_score
    score,              \* the value _calculate_fallback_score returned for it
    raises              \* how many times a dimension of `features` was raised

vars == <<pc, model, model_available, ecosystem_mapping, feature_names,
          attempts, call, returned, features, score, raises>>

engine == <<model, model_available, ecosystem_mapping, feature_names>>

---------------------------------------------------------------------------
(* Fixed-point numbers *)

Unit == 100 * 100

Fx(n) == n * Unit

\* i + f/10000, f the four decimals
Dec(i, f) == i * Unit + f

Abs(x) == IF x < 0 THEN -x ELSE x

Max(a, b) == IF a >= b THEN a ELSE b

Min(a, b) == IF a <= b THEN a ELSE b

\* the integer nearest to n/d (d > 0), a tie going to the even one
RoundHalfEven(n, d) ==
    LET f == n \div d
        r == n - f * d
    IN  IF 2 * r < d THEN f
        ELSE IF 2 * r > d THEN f + 1
        ELSE IF f % 2 = 0 THEN f ELSE f + 1

\* round(n/d, 2) for the fixed-point quotient n/d
Round2(n, d) == RoundHalfEven(n, d * 100) * 100

---------------------------------------------------------------------------
(* Python values and results *)

PyNone == [ty |-> "NoneType"]

PyStr(s) == [ty |-> "str", s |-> s]

PyInt(n) == [ty |-> "int", x |-> Fx(n)]

PyFloat(x) == [ty |-> "float", x |-> x]

PyDict(d) == [ty |-> "dict", d |-> d]

PyList(l) == [ty |-> "list", l |-> l]

EmptyDict == PyDict(<<>>)

EmptyStr == PyStr(<<>>)

Ok(v) == [ok |-> TRUE, v |-> v]

Err(e) == [ok |-> FALSE, error |-> e]

\* d.get(k, default) on the content d of a dict
Get(d, k, default) == IF k \in DOMAIN d THEN d[k] ELSE default

\* len(v)
PyLen(v) ==
    CASE v.ty = "str" -> Ok(Len(v.s))
      [] v.ty = "list" -> Ok(Len(v.l))
      [] v.ty = "dict" -> Ok(Cardinality(DOMAIN v.d))
      [] OTHER -> Err("TypeError")

---------------------------------------------------------------------------
(* Characters and strings *)

Digits == {"0", "1", "2", "3", "4", "5", "6", "7", "8", "9"}

DigitVal(c) ==
    CASE c = "0" -> 0 [] c = "1" -> 1 [] c = "2" -> 2 [] c = "3" -> 3
      [] c = "4" -> 4 [] c = "5" -> 5 [] c = "6" -> 6 [] c = "7" -> 7
      [] c = "8" -> 8 [] c = "9" -> 9

LowerMap ==
    [A |-> "a", B |-> "b", C |-> "c", D |-> "d", E |-> "e", F |-> "f",
     G |-> "g", H |-> "h", I |-> "i", J |-> "j", K |-> "k", L |-> "l",
     M |-> "m", N |-> "n", O |-> "o", P |-> "p", Q |-> "q", R |-> "r",
     S |-> "s", T |-> "t", U |-> "u", V |-> "v", W |-> "w", X |-> "x",
     Y |-> "y", Z |-> "z"]

LowerChar(c) == IF c \in DOMAIN LowerMap THEN LowerMap[c] ELSE c

UpperChar(c) ==
    IF \E u \in DOMAIN LowerMap : LowerMap[u] = c
    THEN CHOOSE u \in DOMAIN LowerMap : LowerMap[u] = c
    ELSE c

\* s.lower()
Lower(s) == [i \in 1..Len(s) |-> LowerChar(s[i])]

\* s.upper()
Upper(s) == [i \in 1..Len(s) |-> UpperChar(s[i])]

\* sub in s
Contains(s, sub) ==
    \E i \in 1..(Len(s) - Len(sub) + 1) : SubSeq(s, i, i + Len(sub) - 1) = sub

Whitespace == {" "}

\* s.strip(), as float() does before it parses
RECURSIVE LStrip(_)
LStrip(s) == IF s # <<>> /\ Head(s) \in Whitespace THEN LStrip(Tail(s)) ELSE s

RECURSIVE RStrip(_)
RStrip(s) ==
    IF s # <<>> /\ s[Len(s)] \in Whitespace
    THEN RStrip(SubSeq(s, 1, Len(s) - 1)) ELSE s

Strip(s) == RStrip(LStrip(s))

\* the first index >= i of s that holds no digit (Len(s) + 1 if none)
RECURSIVE DigitRun(_, _)
DigitRun(s, i) ==
    IF i <= Len(s) /\ s[i] \in Digits THEN DigitRun(s, i + 1) ELSE i

\* the first index >= i of s that is outside cs
RECURSIVE SkipChars(_, _, _)
SkipChars(s, i, cs) ==
    IF i <= Len(s) /\ s[i] \in cs THEN SkipChars(s, i + 1, cs) ELSE i

\* the value of a run of digits
RECURSIVE DigitsVal(_)
DigitsVal(ds) ==
    IF ds = <<>> THEN 0
    ELSE DigitsVal(SubSeq(ds, 1, Len(ds) - 1)) * 10 + DigitVal(ds[Len(ds)])

\* the fraction .ds in units of 1/10000 (digits after the fourth are cut)
FracVal(ds) ==
    LET d(i) == IF i <= Len(ds) THEN DigitVal(ds[i]) ELSE 0
    IN  d(1) * 1000 + d(2) * 100 + d(3) * 10 + d(4)

\* t is sign? digits [. digits] or sign? . digits: the decimal literals
\* float() accepts (exponents, underscores, inf and nan are outside the
\* strings modelled here)
IsFloatLiteral(t) ==
    LET b == IF t # <<>> /\ t[1] \in {"+", "-"} THEN 2 ELSE 1
        e1 == DigitRun(t, b)
        e2 == IF e1 <= Len(t) /\ t[e1] = "." THEN DigitRun(t, e1 + 1) ELSE e1
    IN  /\ e2 = Len(t) + 1
        /\ (e1 - b) + (IF e2 > e1 THEN e2 - e1 - 1 ELSE 0) >= 1

LiteralVal(t) ==
    LET b == IF t # <<>> /\ t[1] \in {"+", "-"} THEN 2 ELSE 1
        e1 == DigitRun(t, b)
        e2 == IF e1 <= Len(t) /\ t[e1] = "." THEN DigitRun(t, e1 + 1) ELSE e1
        mag == Fx(DigitsVal(SubSeq(t, b, e1 - 1)))
               + FracVal(SubSeq(t, e1 + 1, e2 - 1))
    IN  IF t[1] = "-" THEN -mag ELSE mag

\* float(v)
ToFloat(v) ==
    CASE v.ty \in {"int", "float"} -> Ok(v.x)
      [] v.ty = "str" ->
            IF IsFloatLiteral(Strip(v.s)) THEN Ok(LiteralVal(Strip(v.s)))
            ELSE Err("ValueError")
      [] OTHER -> Err("TypeError")

---------------------------------------------------------------------------
(* The value normalizer and the coordinate parsers *)

\* re.sub(r'[^\d.-]', '', s)
NumericChars(s) == SelectSeq(s, LAMBDA c : c \in Digits \cup {".", "-"})

\* _extract_numeric_value(value): never raises
_extract_numeric_value(value) ==
    CASE value.ty = "NoneType" -> 0
      [] value.ty \in {"int", "float"} -> value.x
      [] value.ty = "str" ->
            LET cleaned == NumericChars(value.s)
            IN  IF cleaned # <<>> /\ IsFloatLiteral(cleaned)
                THEN LiteralVal(cleaned) ELSE 0
      [] OTHER -> 0

\* `not v`: the values Python takes for false
Falsy(v) ==
    CASE v.ty = "NoneType" -> TRUE
      [] v.ty \in {"int", "float"} -> v.x = 0
      [] v.ty = "str" -> v.s = <<>>
      [] v.ty = "list" -> v.l = <<>>
      [] v.ty = "dict" -> DOMAIN v.d = {}

\* whether ([+-]?\d+\.?\d*) can match at index i of s
NumStartsAt(s, i) ==
    \/ s[i] \in Digits
    \/ s[i] \in {"+", "-"} /\ i + 1 <= Len(s) /\ s[i + 1] \in Digits

\* the index after the greedy match of ([+-]?\d+\.?\d*) at index i
NumEnd(s, i) ==
    LET b == IF s[i] \in {"+", "-"} THEN i + 1 ELSE i
        e1 == DigitRun(s, b)
    IN  IF e1 <= Len(s) /\ s[e1] = "." THEN DigitRun(s, e1 + 1) ELSE e1

MinOf(S) == CHOOSE x \in S : \A y \in S : x <= y

\* _extract_lat_from_string(location_str): re.search takes the leftmost
\* match; everything after the number is optional.  A value that is no
\* string makes re.search raise, which the bare except turns into 0.0.
_extract_lat_from_string(location_str) ==
    IF Falsy(location_str) \/ location_str.ty # "str" THEN 0
    ELSE LET s == location_str.s
             starts == {i \in 1..Len(s) : NumStartsAt(s, i)}
         IN  IF starts = {} THEN 0
             ELSE LET i == MinOf(starts)
                      lat == LiteralVal(SubSeq(s, i, NumEnd(s, i) - 1))
                  IN  IF Contains(Upper(s), <<"S">>) THEN -Abs(lat) ELSE lat

\* _extract_lng_from_string(location_str): the number must be followed by
\* degree signs or blanks and then E or W.  No shorter number at the same
\* start can match, since the character after it would be a digit or ".".
_extract_lng_from_string(location_str) ==
    IF Falsy(location_str) \/ location_str.ty # "str" THEN 0
    ELSE LET s == location_str.s
             hemi(i) == LET k == SkipChars(s, NumEnd(s, i), {"deg", " "})
                        IN  k <= Len(s) /\ s[k] \in {"E", "W"}
             starts == {i \in 1..Len(s) : NumStartsAt(s, i) /\ hemi(i)}
         IN  IF starts = {} THEN 0
             ELSE LET i == MinOf(starts)
                      lng == LiteralVal(SubSeq(s, i, NumEnd(s, i) - 1))
                  IN  IF Contains(Upper(s), <<"W">>) THEN -Abs(lng) ELSE lng

---------------------------------------------------------------------------
(* Media counts *)

C_photo == <<"p", "h", "o", "t", "o">>
C_image == <<"i", "m", "a", "g", "e">>
C_video == <<"v", "i", "d", "e", "o">>
C_document == <<"d", "o", "c", "u", "m", "e", "n", "t">>
C_doc == <<"d", "o", "c">>
C_pdf == <<"p", "d", "f">>

\* the bucket of one attachment item: item.get('type', '').lower() and the
\* if/elif chain; an item that is no dict has no get, a type that is no
\* string has no lower
ItemBucket(item) ==
    IF item.ty # "dict" THEN Err("AttributeError")
    ELSE LET t == Get(item.d, "type", EmptyStr)
         IN  IF t.ty # "str" THEN Err("AttributeError")
             ELSE LET item_type == Lower(t.s)
                  IN  IF Contains(item_type, C_photo) \/ Contains(item_type, C_image)
                      THEN Ok("photo")
                      ELSE IF Contains(item_type, C_video) THEN Ok("video")
                      ELSE IF \/ Contains(item_type, C_document)
                              \/ Contains(item_type, C_doc)
                              \/ Contains(item_type, C_pdf)
                      THEN Ok("document")
                      ELSE Ok("none")

\* what `for item in v` iterates over: the items of a list, the characters
\* of a string, the keys of a dict (both strings)
IterItems(v) ==
    CASE v.ty = "list" -> Ok(v.l)
      [] v.ty = "str" -> Ok([i \in 1..Len(v.s) |-> PyStr(<<v.s[i]>>)])
      [] v.ty = "dict" ->
            Ok([i \in 1..Cardinality(DOMAIN v.d) |-> PyStr(<<"k">>)])
      [] OTHER -> Err("TypeError")

\* the loop over ipfs_hashes from item i on, counts = <<photo, video, document>>
RECURSIVE CountItems(_, _, _)
CountItems(items, i, counts) ==
    IF i > Len(items) THEN Ok(counts)
    ELSE LET b == ItemBucket(items[i])
         IN  IF ~b.ok THEN b
             ELSE CountItems(items, i + 1,
                    <<counts[1] + (IF b.v = "photo" THEN 1 ELSE 0),
                      counts[2] + (IF b.v = "video" THEN 1 ELSE 0),
                      counts[3] + (IF b.v = "document" THEN 1 ELSE 0)>>)

\* the three len() calls in their order: the first that raises, or the sums
FirstLenErr(c, p, v, o) ==
    IF ~p.ok THEN p
    ELSE IF ~v.ok THEN v
    ELSE IF ~o.ok THEN o
    ELSE Ok(<<c[1] + p.v, c[2] + v.v, c[3] + o.v>>)

\* the second half of _extract_media_counts: the lengths of the lists of
\* media_files added to the counts c of the loop
AddMediaFiles(c, media_files) ==
    IF media_files.ty # "dict" THEN Ok(c)
    ELSE FirstLenErr(c,
           PyLen(Get(media_files.d, "photos", PyList(<<>>))),
           PyLen(Get(media_files.d, "videos", PyList(<<>>))),
           PyLen(Get(media_files.d, "documents", PyList(<<>>))))

ThenMediaFiles(c, media_files) ==
    IF ~c.ok THEN c ELSE AddMediaFiles(c.v, media_files)

\* the loop of _extract_media_counts over what ipfs_hashes iterates to
CountIterated(it) == IF ~it.ok THEN it ELSE CountItems(it.v, 1, <<0, 0, 0>>)

\* _extract_media_counts(project_data), d the content of project_data
_extract_media_counts(d) ==
    ThenMediaFiles(CountIterated(IterItems(Get(d, "ipfs_hashes", PyList(<<>>)))),
                   Get(d, "media_files", EmptyDict))

---------------------------------------------------------------------------
(* Feature extraction *)

\* v.get(...) needs a dict
IsDict(v) == v.ty = "dict"

\* the first failure of a sequence of results, or Ok of all their values
RECURSIVE FirstErr(_, _)
FirstErr(rs, i) ==
    IF i > Len(rs) THEN Ok([j \in 1..Len(rs) |-> rs[j].v])
    ELSE IF ~rs[i].ok THEN rs[i]
    ELSE FirstErr(rs, i + 1)

\* 1. len(project_data.get('project_name', ''))
NameLength(d) == PyLen(Get(d, "project_name", EmptyStr))

\* 2. the lower-cased ecosystem looked up in the mapping, 1 when absent
EncodeEcosystem_DefaultZero(eco, mapping) ==
    IF eco.ty # "str" THEN Err("AttributeError")
    ELSE Ok(Fx(Get(mapping, Lower(eco.s), 0)))

EncodeEcosystem(eco, mapping) ==
    IF eco.ty # "str" THEN Err("AttributeError")
    ELSE Ok(Fx(Get(mapping, Lower(eco.s), 1)))

\* 3. float(project_data.get('area_hectares', 0))
AreaHectares(d) == ToFloat(Get(d, "area_hectares", PyInt(0)))

\* 4. len of description, else of project_description, else of ''
DescriptionLength(d) ==
    PyLen(Get(d, "description", Get(d, "project_description", EmptyStr)))

\* 5. latitude of a location
Latitude(location) ==
    IF IsDict(location) THEN ToFloat(Get(location.d, "lat", PyInt(0)))
    ELSE Ok(_extract_lat_from_string(location))

\* 6. longitude of a location
Longitude(location) ==
    IF IsDict(location) THEN ToFloat(Get(location.d, "lng", PyInt(0)))
    ELSE Ok(_extract_lng_from_string(location))

\* field_measurements.get(name, {}) and the first .get on it: both need a dict
Section(field_measurements, name) ==
    IF ~IsDict(field_measurements) THEN Err("AttributeError")
    ELSE IF ~IsDict(Get(field_measurements.d, name, EmptyDict))
    THEN Err("AttributeError")
    ELSE Ok(Get(field_measurements.d, name, EmptyDict).d)

\* 10-12. the water measurements of the section w
WaterValues(w) ==
    IF ~w.ok THEN w
    ELSE Ok(<<_extract_numeric_value(Get(w.v, "ph_level", PyFloat(Dec(7, 0)))),
              _extract_numeric_value(Get(w.v, "salinity", PyFloat(Dec(25, 0)))),
              _extract_numeric_value(Get(w.v, "dissolved_oxygen", PyFloat(Dec(6, 0))))>>)

\* 13-15. the soil measurements of the section s
SoilValues(s) ==
    IF ~s.ok THEN s
    ELSE Ok(<<_extract_numeric_value(Get(s.v, "carbon_content", PyFloat(Dec(2, 0)))),
              _extract_numeric_value(Get(s.v, "ph_level", PyFloat(Dec(7, 0)))),
              _extract_numeric_value(Get(s.v, "salinity", PyFloat(Dec(15, 0))))>>)

\* the features list, from the values of the nine statements
FeatureList(steps) ==
    IF ~steps.ok THEN steps
    ELSE Ok(<<Fx(steps.v[1]), steps.v[2], steps.v[3], Fx(steps.v[4]),
              steps.v[5], steps.v[6],
              Fx(steps.v[7][1]), Fx(steps.v[7][2]), Fx(steps.v[7][3]),
              steps.v[8][1], steps.v[8][2], steps.v[8][3],
              steps.v[9][1], steps.v[9][2], steps.v[9][3]>>)

\* extract_ml_features(project_data) with self.ecosystem_mapping = mapping:
\* Ok(the 15 features) or Err(the exception the first failing statement
\* raises)
extract_ml_features(project_data, mapping) ==
    IF ~IsDict(project_data) THEN Err("AttributeError")
    ELSE FeatureList(FirstErr(
           <<NameLength(project_data.d),
             EncodeEcosystem(Get(project_data.d, "ecosystem_type", EmptyStr), mapping),
             AreaHectares(project_data.d),
             DescriptionLength(project_data.d),
             Latitude(Get(project_data.d, "location", EmptyDict)),
             Longitude(Get(project_data.d, "location", EmptyDict)),
             _extract_media_counts(project_data.d),
             WaterValues(Section(Get(project_data.d, "field_measurements", EmptyDict),
                                 "water_quality")),
             SoilValues(Section(Get(project_data.d, "field_measurements", EmptyDict),
                                "soil_analysis"))>>, 1))

---------------------------------------------------------------------------
(* The engine's tables *)

K_mangrove == <<"m", "a", "n", "g", "r", "o", "v", "e">>
K_mangroves == <<"m", "a", "n", "g", "r", "o", "v", "e", "s">>
K_seagrass == <<"s", "e", "a", "g", "r", "a", "s", "s">>
K_coastal_wetland == <<"c", "o", "a", "s", "t", "a", "l", "_", "w", "e", "t",
    "l", "a", "n", "d">>
K_coastal_wetlands == <<"c", "o", "a", "s", "t", "a", "l", "_", "w", "e", "t",
    "l", "a", "n", "d", "s">>
K_salt_marsh == <<"s", "a", "l", "t", "_", "m", "a", "r", "s", "h">>
K_kelp_forest == <<"k", "e", "l", "p", "_", "f", "o", "r", "e", "s", "t">>

\* self.ecosystem_mapping as __init__ sets it
EcosystemMapping ==
    (K_mangrove :> 0) @@ (K_mangroves :> 0) @@ (K_seagrass :> 1)
    @@ (K_coastal_wetland :> 1) @@ (K_coastal_wetlands :> 1)
    @@ (K_salt_marsh :> 2) @@ (K_kelp_forest :> 2)

\* self.feature_names as __init__ sets it
FeatureNames ==
    <<"project_name_length", "ecosystem_type_encoded", "area_hectares",
      "description_length", "latitude", "longitude", "photo_count",
      "video_count", "document_count", "water_ph", "water_salinity_ppt",
      "water_dissolved_oxygen", "soil_organic_carbon_percent", "soil_ph",
      "soil_salinity_ppt">>

\* dict(zip(names, values))
ZipDict(names, values) ==
    LET n == Min(Len(names), Len(values))
    IN  [k \in {names[i] : i \in 1..n} |->
            values[CHOOSE i \in 1..n :
                     names[i] = k /\ \A j \in (i + 1)..n : names[j] # k]]

---------------------------------------------------------------------------
(* The fallback scorer *)

\* the ecosystem bonus
EcosystemBonus(ecosystem_encoded) ==
    IF ecosystem_encoded = Fx(0) THEN Fx(10)
    ELSE IF ecosystem_encoded = Fx(1) THEN Fx(5)
    ELSE 0

\* the area bonus
AreaBonus(area) ==
    IF Fx(1) <= area /\ area <= Fx(100) THEN Fx(15)
    ELSE IF Dec(0, 1000) <= area /\ area <= Fx(1000) THEN Fx(10)
    ELSE IF area > 0 THEN Fx(5)
    ELSE 0

\* the location bonus
LocationBonus(lat, lng) ==
    IF /\ Fx(-90) <= lat /\ lat <= Fx(90)
       /\ Fx(-180) <= lng /\ lng <= Fx(180)
       /\ (lat # 0 \/ lng # 0)
    THEN Fx(10) ELSE 0

\* MediaBonus with the top tier tested by == 5 instead of >= 5
MediaBonus_ExactlyFive(total_media) ==
    IF total_media = Fx(5) THEN Fx(10)
    ELSE IF total_media >= Fx(1) THEN Fx(5)
    ELSE 0

\* the media bonus
MediaBonus(total_media) ==
    IF total_media >= Fx(5) THEN Fx(10)
    ELSE IF total_media >= Fx(1) THEN Fx(5)
    ELSE 0

\* Clamp without the upper limit
Clamp_NoCeiling(x) == Max(0, x)

\* max(0.0, min(100.0, x))
Clamp(x) == Max(0, Min(Fx(100), x))

\* _calculate_fallback_score(features), features the name -> value mapping
_calculate_fallback_score(f) ==
    LET s == Fx(50)
             + EcosystemBonus(Get(f, "ecosystem_type_encoded", Fx(1)))
             + AreaBonus(Get(f, "area_hectares", 0))
             + LocationBonus(Get(f, "latitude", 0), Get(f, "longitude", 0))
             + (IF Get(f, "project_name_length", 0) > Fx(5) THEN Fx(5) ELSE 0)
             + (IF Get(f, "description_length", 0) > Fx(20) THEN Fx(5) ELSE 0)
             + MediaBonus(Get(f, "photo_count", 0) + Get(f, "video_count", 0)
                          + Get(f, "document_count", 0))
             + (IF /\ Dec(6, 0) <= Get(f, "water_ph", Dec(7, 0))
                   /\ Get(f, "water_ph", Dec(7, 0)) <= Dec(8, 5000)
                THEN Fx(3) ELSE 0)
             + (IF /\ 0 <= Get(f, "water_salinity_ppt", Dec(25, 0))
                   /\ Get(f, "water_salinity_ppt", Dec(25, 0)) <= Fx(50)
                THEN Fx(3) ELSE 0)
             + (IF Get(f, "soil_organic_carbon_percent", Dec(2, 0)) > Dec(1, 0)
                THEN Fx(4) ELSE 0)
    IN  Round2(Clamp(s), 1)

---------------------------------------------------------------------------
(* predict_quality_score *)

\* the objects __init__ may bind to self.model; NoneObj is Python's None
NoneObj == "None"

\* whether the model has a predict_proba attribute
HasPredictProba(m) == m = "Classifier"

\* what self.model.predict(features_array)[0] does in one call
Raises == [kind |-> "raise"]
NativeScalar(x) == [kind |-> "float", v |-> x]
NumpyScalar(x) == [kind |-> "npscalar", v |-> x]
Vector(v) == [kind |-> "vector", vec |-> v]
NotInvoked == [kind |-> "none"]

\* dict.update
Update(r, u) == u @@ r

\* the result dict predict_quality_score starts from
InitialResult ==
    [quality_score |-> Dec(50, 0), model_used |-> FALSE,
     feature_values |-> <<>>, predictions |-> <<>>, status |-> "error"]

\* RawModelScore with every prediction taken for a probability
RawModelScore_ScaleAll(prediction) ==
    IF prediction.kind = "vector"
    THEN IF Len(prediction.vec) >= 2 THEN Ok(prediction.vec[2] * 100)
         ELSE Err("IndexError")
    ELSE Ok(prediction.v * 100)

\* the raw score the model path derives from a prediction: Ok(score), or
\* Err when indexing raises
RawModelScore(prediction) ==
    IF prediction.kind = "float" THEN Ok(prediction.v)
    ELSE IF prediction.kind = "vector"
         THEN IF Len(prediction.vec) >= 2 THEN Ok(prediction.vec[2] * 100)
              ELSE Err("IndexError")
    ELSE Ok(prediction.v * 100)

\* EnhanceModel with the flat boost of the fallback path
EnhanceModel_Flat(q) == Round2(Max(0, Min(Fx(100), q + Dec(25, 0))), 1)

\* the model path's boost, clamp and rounding of the raw score q: the
\* boosted score is the quotient (q * 125) / 100
EnhanceModel(q) ==
    IF q * 125 <= 0 THEN 0
    ELSE IF q * 125 >= Fx(100) * 100 THEN Fx(100)
    ELSE Round2(q * 125, 100)

\* the fallback path's boost, clamp and rounding
EnhanceFallback(fallback_score) == Round2(Clamp(fallback_score + Dec(25, 0)), 1)

\* the optional probability step: the predictions dict it leaves
Predictions(m, proba) ==
    IF ~HasPredictProba(m) \/ proba.kind = "raise" THEN <<>>
    ELSE IF proba.vec = <<>> THEN [probabilities |-> proba.vec]
    ELSE [probabilities |-> proba.vec,
          confidence |-> CHOOSE x \in {proba.vec[i] : i \in 1..Len(proba.vec)} :
                            \A i \in 1..Len(proba.vec) : proba.vec[i] <= x]

\* ModelPath with the probability step outside its own try
ModelPath_ProbaUnguarded(result, m, prediction, proba) ==
    IF prediction.kind = "raise" THEN Err("ModelError")
    ELSE IF HasPredictProba(m) /\ proba.kind = "raise" THEN Err("ModelError")
    ELSE LET q == RawModelScore(prediction)
         IN  IF ~q.ok THEN q
             ELSE Ok(Update(
                    Update(result,
                      [quality_score |-> EnhanceModel(q.v),
                       original_score |-> Round2(q.v, 1),
                       enhancement_applied |-> "+25 points",
                       model_used |-> TRUE,
                       status |-> "success",
                       model_type |-> m]),
                    [predictions |-> Predictions(m, proba)]))

\* the model branch of the try block: Ok(result) or Err(exception)
ModelPath(result, m, prediction, proba) ==
    IF prediction.kind = "raise" THEN Err("ModelError")
    ELSE LET q == RawModelScore(prediction)
         IN  IF ~q.ok THEN q
             ELSE Ok(Update(
                    Update(result,
                      [quality_score |-> EnhanceModel(q.v),
                       original_score |-> Round2(q.v, 1),
                       enhancement_applied |-> "+25 points",
                       model_used |-> TRUE,
                       status |-> "success",
                       model_type |-> m]),
                    [predictions |-> Predictions(m, proba)]))

\* the fallback branch of the try block
FallbackPath(result, feature_dict) ==
    LET fallback_score == _calculate_fallback_score(feature_dict)
    IN  Update(result,
          [quality_score |-> EnhanceFallback(fallback_score),
           original_score |-> Round2(fallback_score, 1),
           enhancement_applied |-> "+25 points",
           model_used |-> FALSE,
           status |-> "fallback_enhanced",
           note |-> "Using enhanced rule-based fallback scoring with +25 points boost"])

\* the except block: the emergency result
EmergencyResult(result, e) ==
    Update(result,
      [quality_score |-> Dec(50, 0), model_used |-> FALSE,
       status |-> "error", error |-> e])

\* whether a call takes the model branch
UsesModel(m, available) == available /\ m # NoneObj

\* the try block after extraction: feature_dict, then one of the branches
ScoreFeatures(feats, names, m, available, prediction, proba) ==
    LET feature_dict == ZipDict(names, feats)
        result == Update(InitialResult, [feature_values |-> feature_dict])
    IN  IF UsesModel(m, available)
        THEN LET r == ModelPath(result, m, prediction, proba)
             IN  IF r.ok THEN r.v ELSE EmergencyResult(result, r.error)
        ELSE FallbackPath(result, feature_dict)

\* predict_quality_score with extract_ml_features called outside the try
predict_quality_score_Unguarded(extracted, names, m, available, prediction, proba) ==
    IF ~extracted.ok
    THEN [raised |-> TRUE, result |-> InitialResult]
    ELSE [raised |-> FALSE,
          result |-> ScoreFeatures(extracted.v, names, m, available,
                                   prediction, proba)]

\* predict_quality_score(project_data): [raised, result]; raised says that
\* an exception left the function instead of a result
predict_quality_score(extracted, names, m, available, prediction, proba) ==
    IF ~extracted.ok
    THEN [raised |-> FALSE,
          result |-> EmergencyResult(InitialResult, extracted.error)]
    ELSE [raised |-> FALSE,
          result |-> ScoreFeatures(extracted.v, names, m, available,
                                   prediction, proba)]

---------------------------------------------------------------------------
(* Submissions *)

SampleName == <<"T", "e", "s", "t", " ", "M", "a", "n", "g", "r", "o", "v",
    "e", " ", "R", "e", "s", "t", "o", "r", "a", "t", "i", "o", "n", " ",
    "P", "r", "o", "j", "e", "c", "t">>
SampleDescription == <<"T", "h", "i", "s", " ", "i", "s", " ", "a", " ",
    "t", "e", "s", "t", " ", "p", "r", "o", "j", "e", "c", "t", " ", "f",
    "o", "r", " ", "m", "a", "n", "g", "r", "o", "v", "e", " ", "r", "e",
    "s", "t", "o", "r", "a", "t", "i", "o", "n", " ", "i", "n", " ", "c",
    "o", "a", "s", "t", "a", "l", " ", "a", "r", "e", "a", "s", " ", "w",
    "i", "t", "h", " ", "c", "o", "m", "m", "u", "n", "i", "t", "y", " ",
    "i", "n", "v", "o", "l", "v", "e", "m", "e", "n", "t", ".">>
S_mangrove == <<"m", "a", "n", "g", "r", "o", "v", "e">>
S_photos == <<"p", "h", "o", "t", "o", "s">>
S_videos == <<"v", "i", "d", "e", "o", "s">>
S_documents == <<"d", "o", "c", "u", "m", "e", "n", "t", "s">>
S_Mangrove == <<"M", "a", "n", "g", "r", "o", "v", "e">>
S_abc == <<"a", "b", "c">>
S_x == <<"x">>
S_12_5 == <<"1", "2", ".", "5">>
S_location == <<"2", "2", ".", "3", "5", "deg", "N", ",", " ", "8", "8",
    ".", "9", "8", "deg", "E">>
S_7_2_pH == <<"7", ".", "2", " ", "p", "H">>
S_Image == <<"I", "m", "a", "g", "e">>
S_salt_marsh == <<"s", "a", "l", "t", "_", "m", "a", "r", "s", "h">>
S_9_5 == <<"9", ".", "5">>
S_60ppt == <<"6", "0", "p", "p", "t">>
S_0_5 == <<"0", ".", "5", " ", "%">>

\* the submission of test_model
SampleData ==
    PyDict([project_name |-> PyStr(SampleName),
            ecosystem_type |-> PyStr(S_mangrove),
            area_hectares |-> PyFloat(Dec(5, 5000)),
            description |-> PyStr(SampleDescription),
            location |-> PyDict([lat |-> PyFloat(Dec(19, 760)),
                                 lng |-> PyFloat(Dec(72, 8777))]),
            field_measurements |->
                PyDict([water_quality |->
                            PyDict([ph_level |-> PyFloat(Dec(7, 2000)),
                                    salinity |-> PyFloat(Dec(30, 0)),
                                    dissolved_oxygen |-> PyFloat(Dec(6, 5000))]),
                        soil_analysis |->
                            PyDict([carbon_content |-> PyFloat(Dec(3, 5000)),
                                    ph_level |-> PyFloat(Dec(7, 0)),
                                    salinity |-> PyFloat(Dec(15, 0))])]),
            ipfs_hashes |->
                PyList(<<PyDict([type |-> PyStr(S_photos)]),
                         PyDict([type |-> PyStr(S_photos)]),
                         PyDict([type |-> PyStr(S_videos)]),
                         PyDict([type |-> PyStr(S_documents)])>>)])

\* a submission whose values are strings: a capitalised ecosystem, a numeric
\* string for the area, a coordinate string, measurements with units
StringData ==
    PyDict([ecosystem_type |-> PyStr(S_Mangrove),
            area_hectares |-> PyStr(S_12_5),
            location |-> PyStr(S_location),
            field_measurements |->
                PyDict([water_quality |-> PyDict([ph_level |-> PyStr(S_7_2_pH)])]),
            ipfs_hashes |-> PyList(<<PyDict([type |-> PyStr(S_Image)]),
                                     PyDict(<<>>)>>),
            media_files |-> PyDict([photos |-> PyList(<<PyNone>>)])])

\* a submission that earns no bonus
PoorData ==
    PyDict([ecosystem_type |-> PyStr(S_salt_marsh),
            field_measurements |->
                PyDict([water_quality |-> PyDict([ph_level |-> PyStr(S_9_5),
                                                  salinity |-> PyStr(S_60ppt)]),
                        soil_analysis |->
                            PyDict([carbon_content |-> PyStr(S_0_5)])])])

\* a submission that has none of the fields extraction reads
BareData ==
    PyDict([project_id |-> PyStr(S_x), status |-> PyStr(S_abc)])

\* submissions with a malformed field
MalformedData ==
    {PyDict([area_hectares |-> PyStr(S_abc)]),
     PyDict([ecosystem_type |-> PyNone]),
     PyDict([project_name |-> PyNone]),
     PyDict([ipfs_hashes |-> PyList(<<PyStr(S_x)>>)]),
     PyDict([field_measurements |-> PyStr(S_x)])}

\* the submissions the callers send
Submissions ==
    {EmptyDict, BareData, SampleData, StringData, PoorData} \cup MalformedData

\* what self.model.predict(...)[0] returns or does in a call
PredictOutcomes ==
    {Raises,
     NativeScalar(Dec(-5, 0)), NativeScalar(Dec(40, 3333)),
     NativeScalar(Dec(130, 0)), NumpyScalar(Dec(0, 5000)),
     Vector(<<Dec(0, 6000), Dec(0, 4000)>>), Vector(<<Dec(0, 7000)>>)}

\* what self.model.predict_proba(...)[0] returns or does in a call
ProbaOutcomes ==
    {Raises, Vector(<<Dec(0, 2000), Dec(0, 8000)>>), Vector(<<>>)}

\* what pickle.load returns when it succeeds
LoadedObjects == {"Classifier", "Regressor", NoneObj}

Callers == {"c1", "c2"}

---------------------------------------------------------------------------
(* The engine: __init__ and the calls of verify_project_ml *)

Idle == [st |-> "idle"]

NoCall == [st |-> "none"]

\* lines 60-93 of __init__, which every path through it reaches
SetTables ==
    /\ ecosystem_mapping' = EcosystemMapping
    /\ feature_names' = FeatureNames

\* one pickle.load attempt in `mode`; `next` is the mode tried when it fails
LoadAttempt(mode, next, outcome) ==
    /\ pc = mode
    /\ attempts' = Append(attempts, mode)
    /\ IF outcome.ok
       THEN /\ model' = outcome.v
            /\ model_available' = TRUE
            /\ pc' = "ready"
            /\ SetTables
       ELSE IF next = "ready"
       THEN /\ model' = NoneObj
            /\ model_available' = FALSE
            /\ pc' = "ready"
            /\ SetTables
       ELSE /\ pc' = next
            /\ UNCHANGED engine
    /\ UNCHANGED <<call, returned, features, score, raises>>

LoadOutcomes == {Ok(o) : o \in LoadedObjects} \cup {Err("Exception")}

LoadStandard == \E o \in LoadOutcomes : LoadAttempt("standard", "latin1", o)

LoadLatin1 == \E o \in LoadOutcomes : LoadAttempt("latin1", "fix_imports", o)

LoadFixImports == \E o \in LoadOutcomes : LoadAttempt("fix_imports", "ready", o)

\* the ImportError handler: pickle cannot be imported, no mode is tried
ImportFails ==
    /\ pc = "standard"
    /\ model' = NoneObj
    /\ model_available' = FALSE
    /\ pc' = "ready"
    /\ SetTables
    /\ UNCHANGED <<attempts, call, returned, features, score, raises>>

\* what a returning call leaves in `returned`
Returned(c, data, extracted, prediction, proba, out) ==
    [st |-> "returned", caller |-> c, data |-> data, extract |-> extracted,
     predict |-> prediction, proba |-> proba, raised |-> out.raised,
     result |-> out.result]

\* caller c's call with its extraction done
AfterExtract(c, data, extracted) ==
    IF extracted.ok
    THEN /\ call' = [call EXCEPT ![c] =
                       [st |-> "extracted", data |-> data,
                        features |-> extracted.v]]
         /\ UNCHANGED returned
    ELSE /\ returned' =
               Returned(c, data, extracted, NotInvoked, NotInvoked,
                 predict_quality_score(extracted, feature_names, model,
                   model_available, NotInvoked, NotInvoked))
         /\ UNCHANGED call

\* caller c calls verify_project_ml(data): the call runs extract_ml_features;
\* when extraction raises, the call returns at once
CallExtract(c, data) ==
    /\ pc = "ready"
    /\ call[c] = Idle
    /\ AfterExtract(c, data, extract_ml_features(data, ecosystem_mapping))
    /\ UNCHANGED <<pc, engine, attempts, features, score, raises>>

\* which of the model's two capabilities a call invokes: predict when the
\* model branch is taken, predict_proba when the model has it and the
\* score was formed
Invoked(prediction, proba) ==
    IF ~UsesModel(model, model_available) THEN <<NotInvoked, NotInvoked>>
    ELSE IF /\ prediction.kind # "raise"
            /\ RawModelScore(prediction).ok
            /\ HasPredictProba(model)
    THEN <<prediction, proba>>
    ELSE <<prediction, NotInvoked>>

ScoreAndReturn(c, inv) ==
    returned' =
        Returned(c, call[c].data, Ok(call[c].features), inv[1], inv[2],
          predict_quality_score(Ok(call[c].features), feature_names,
            model, model_available, inv[1], inv[2]))

\* CallScore with a failed model call switching the model off
CallScore_Degrading(c, prediction, proba) ==
    /\ call[c] # Idle
    /\ Invoked(prediction, proba)[1] = NotInvoked => prediction = Raises
    /\ Invoked(prediction, proba)[2] = NotInvoked => proba = Raises
    /\ ScoreAndReturn(c, Invoked(prediction, proba))
    /\ call' = [call EXCEPT ![c] = Idle]
    /\ model_available' = (model_available /\ Invoked(prediction, proba)[1] # Raises)
    /\ UNCHANGED <<pc, model, ecosystem_mapping, feature_names, attempts,
                   features, score, raises>>

\* the rest of caller c's call: it reads the model handle, scores and
\* returns.  prediction and proba are what the model does if invoked (a
\* capability that is not invoked has one outcome, written Raises).
CallScore(c, prediction, proba) ==
    /\ call[c] # Idle
    /\ Invoked(prediction, proba)[1] = NotInvoked => prediction = Raises
    /\ Invoked(prediction, proba)[2] = NotInvoked => proba = Raises
    /\ ScoreAndReturn(c, Invoked(prediction, proba))
    /\ call' = [call EXCEPT ![c] = Idle]
    /\ UNCHANGED <<pc, engine, attempts, features, score, raises>>

Init ==
    /\ pc = "standard"
    /\ model = NoneObj
    /\ model_available = FALSE
    /\ ecosystem_mapping = <<>>
    /\ feature_names = <<>>
    /\ attempts = <<>>
    /\ call = [c \in Callers |-> Idle]
    /\ returned = NoCall
    /\ features = <<>>
    /\ score = 0
    /\ raises = 0

Next ==
    \/ LoadStandard
    \/ LoadLatin1
    \/ LoadFixImports
    \/ ImportFails
    \/ \E c \in Callers, data \in Submissions : CallExtract(c, data)
    \/ \E c \in Callers, prediction \in PredictOutcomes, proba \in ProbaOutcomes :
          CallScore(c, prediction, proba)

Spec == Init /\ [][Next]_vars

---------------------------------------------------------------------------
(* The scorer on feature mappings: a run starts from the features of a     *)
(* submission, raises one dimension at a time and has the result scored.   *)

MaxMedia == 5

MaxRaises == 2

\* the values a dimension is raised to
Grid(d) ==
    CASE d = "project_name_length" -> {Fx(0), Fx(5), Fx(6)}
      [] d = "ecosystem_type_encoded" -> {Fx(0), Fx(1), Fx(2)}
      [] d = "area_hectares" ->
            {Fx(-1), 0, Dec(0, 500), Dec(0, 1000), Fx(1), Fx(100), Fx(500),
             Fx(1000), Fx(5000)}
      [] d = "description_length" -> {Fx(0), Fx(20), Fx(21)}
      [] d = "latitude" -> {Fx(-91), 0, Fx(45), Fx(91)}
      [] d = "longitude" -> {Fx(-181), 0, Fx(90), Fx(181)}
      [] d \in {"photo_count", "video_count", "document_count"} ->
            {Fx(n) : n \in 0..MaxMedia}
      [] d = "water_ph" -> {Dec(5, 9000), Dec(6, 0), Dec(8, 5000), Dec(9, 0)}
      [] d = "water_salinity_ppt" -> {Fx(-1), 0, Fx(50), Fx(51)}
      [] d = "soil_organic_carbon_percent" -> {Dec(0, 5000), Dec(1, 0), Dec(1, 5000)}
      [] OTHER -> {0, Fx(7)}

\* the feature mappings a run starts from
BaseFeatures ==
    {ZipDict(FeatureNames, extract_ml_features(s, EcosystemMapping).v) :
        s \in {EmptyDict, SampleData, StringData, PoorData}}

\* the engine as __init__ leaves it: without a model, and with one
Handles ==
    {[model |-> NoneObj, available |-> FALSE,
      attempts |-> <<"standard", "latin1", "fix_imports">>],
     [model |-> "Regressor", available |-> TRUE, attempts |-> <<"standard">>]}

InitScore ==
    /\ pc = "ready"
    /\ \E h \in Handles :
          /\ model = h.model
          /\ model_available = h.available
          /\ attempts = h.attempts
    /\ ecosystem_mapping = EcosystemMapping
    /\ feature_names = FeatureNames
    /\ call = [c \in Callers |-> Idle]
    /\ returned = NoCall
    /\ features \in BaseFeatures
    /\ score = _calculate_fallback_score(features)
    /\ raises = 0

\* dimension d of the mapping is raised to v, and the mapping is scored
RaiseDimension(d, v) ==
    /\ returned = NoCall
    /\ raises < MaxRaises
    /\ v > features[d]
    /\ features' = [features EXCEPT ![d] = v]
    /\ score' = _calculate_fallback_score(features')
    /\ raises' = raises + 1
    /\ UNCHANGED <<pc, engine, attempts, call, returned>>

\* the list of values of a feature mapping, in the order of names
ValuesOf(f, names) == [i \in 1..Len(names) |-> f[names[i]]]

\* the scoring part of predict_quality_score on the mapping
ScoreCall(prediction) ==
    /\ returned = NoCall
    /\ UsesModel(model, model_available) \/ prediction = Raises
    /\ returned' =
          [st |-> "scored",
           predict |-> IF UsesModel(model, model_available)
                       THEN prediction ELSE NotInvoked,
           result |-> ScoreFeatures(ValuesOf(features, feature_names),
                        feature_names, model, model_available, prediction,
                        NotInvoked)]
    /\ UNCHANGED <<pc, engine, attempts, call, features, score, raises>>

NextScore ==
    \/ \E d \in DOMAIN features : \E v \in Grid(d) : RaiseDimension(d, v)
    \/ \E prediction \in PredictOutcomes : ScoreCall(prediction)

SpecScore == InitScore /\ [][NextScore]_vars

---------------------------------------------------------------------------
(* Properties *)

\* a call has returned (under Spec)
HasReturned == returned.st = "returned"

\* the model was invoked in the call that returned last and its predict
\* call raised
PredictRaised == HasReturned /\ returned.predict = Raises

\* the fallback scorer's result for the features of the call that returned
\* last: the rule-based score plus the flat 25, at most 100
FallbackOfReturned ==
    Min(Fx(100),
        _calculate_fallback_score(ZipDict(FeatureNames, returned.extract.v))
        + Fx(25))

\* C1: whenever a model is loaded and its predict call fails, the call
\* returns the fallback scorer's result (the rule-based score with the flat
\* boost, status fallback_enhanced, model_used false), and the engine's state
\* is as it was.
C1_PredictFailureFallsBack ==
    PredictRaised =>
        /\ returned.result.status = "fallback_enhanced"
        /\ ~returned.result.model_used
        /\ returned.result.quality_score = FallbackOfReturned
        /\ model_available /\ model # NoneObj

\* extraction or scoring failed in the call that returned last: extraction
\* raised, predict raised, or the prediction has a length and no second
\* element
CallFailed ==
    \/ ~returned.extract.ok
    \/ returned.predict.kind = "raise"
    \/ returned.predict.kind = "vector" /\ Len(returned.predict.vec) < 2

\* C2: predict_quality_score never lets an exception out: every call returns
\* a result whose status is success, fallback_enhanced or error, and whenever
\* extraction or scoring failed the result is the emergency default: quality
\* score 50.0, model_used false, status "error", the error recorded.
C2_NoFaultPropagates ==
    HasReturned =>
        /\ ~returned.raised
        /\ returned.result.status \in {"success", "fallback_enhanced", "error"}
        /\ CallFailed =>
              /\ returned.result.quality_score = Fx(50)
              /\ ~returned.result.model_used
              /\ returned.result.status = "error"
              /\ "error" \in DOMAIN returned.result

\* C2's case: a call whose extraction raised has returned
C2_Witness ==
    /\ HasReturned
    /\ ~returned.extract.ok
    /\ returned.result.status = "error"

\* C3: extract_ml_features never fails: for every submission, malformed ones
\* included, it returns the 15 features.
C3_ExtractionNeverFails ==
    HasReturned => returned.extract.ok /\ Len(returned.extract.v) = 15

\* the load tried all three modes and all failed
LoadExhausted ==
    /\ pc = "ready"
    /\ attempts = <<"standard", "latin1", "fix_imports">>
    /\ ~model_available

\* C4: when the model load has exhausted all compatibility attempts, every
\* scoring call returns model_used false and status "fallback_enhanced".
C4_ExhaustedLoadMeansFallback ==
    (LoadExhausted /\ HasReturned) =>
        /\ ~returned.result.model_used
        /\ returned.result.status = "fallback_enhanced"

\* C5: scores stay in [0, 100]: the value of _calculate_fallback_score for
\* every feature mapping, and the quality_score of every result, on the
\* model path, the fallback path and the error path.
C5_ScoresInRange ==
    /\ 0 <= score /\ score <= Fx(100)
    /\ returned.st = "scored" =>
          /\ 0 <= returned.result.quality_score
          /\ returned.result.quality_score <= Fx(100)

\* C5's case: the bonuses sum to more than 100, the fallback score is 100
\* already and the boosted score is still 100
C5_Witness ==
    /\ returned.st = "scored"
    /\ returned.result.status = "fallback_enhanced"
    /\ score = Fx(100)
    /\ returned.result.original_score = Fx(100)
    /\ returned.result.quality_score = Fx(100)

IsPrefix(s, u) == Len(s) <= Len(u) /\ s = SubSeq(u, 1, Len(s))

\* C6: the load tries standard, latin1, fix_imports in that order, a mode
\* only after every earlier one failed; the first success sets the handle
\* and ends the attempts; when all three fail the handle is absent,
\* initialization completes and every later scoring call uses the fallback
\* scorer.
C6_StagedLoad ==
    /\ IsPrefix(attempts, <<"standard", "latin1", "fix_imports">>)
    /\ pc # "ready" => ~model_available /\ model = NoneObj
    /\ (pc = "ready" /\ attempts # <<>> /\ Len(attempts) < 3) => model_available
    /\ LoadExhausted => model = NoneObj
    /\ (LoadExhausted /\ HasReturned) =>
          /\ returned.predict = NotInvoked
          /\ returned.result.status = "fallback_enhanced"
          /\ returned.result.quality_score = FallbackOfReturned

\* C7: once __init__ is over no step writes the model handle, the
\* availability flag, the ecosystem table or the feature names, and the
\* result of every call is the one its input and the model's behaviour in
\* that call give with the handle as loaded, whatever calls ran before it or
\* alongside it.
C7_HandleReadOnly ==
    /\ [][pc = "ready" => engine' = engine]_vars
    /\ [](HasReturned =>
            returned.result =
                predict_quality_score(returned.extract, FeatureNames, model,
                    model_available, returned.predict, returned.proba).result)

\* C7's case: a call in which the model failed has returned while another
\* caller's call is in flight
C7_Witness ==
    /\ PredictRaised
    /\ \E c \in Callers : c # returned.caller /\ call[c] # Idle

\* the dimensions of a feature mapping that the last step changed
(* (an action-level expression) *)
Changed == {d \in DOMAIN features : features'[d] # features[d]}

\* C8 as stated: raising any one dimension of the feature mapping, the
\* others fixed, never lowers the fallback score.
C8_MonotoneInEveryDimension == [][score' >= score]_vars

\* the dimensions in which the score cannot fall
MonotoneDimensions ==
    {"project_name_length", "description_length", "photo_count",
     "video_count", "document_count", "soil_organic_carbon_percent",
     "water_dissolved_oxygen", "soil_ph", "soil_salinity_ppt"}

\* C8 amended: raising the name length, the description length, a media
\* count or the soil carbon, the others fixed, never lowers the fallback
\* score (dissolved oxygen, soil pH and soil salinity do not enter it).
C8_MonotoneInCounts ==
    [][Changed \subseteq MonotoneDimensions => score' >= score]_vars

\* C8's case: from the default features the photo count was raised to 5 and
\* the score went from 65 to 75
C8_Witness ==
    /\ raises = 1
    /\ \E b \in BaseFeatures :
          /\ _calculate_fallback_score(b) = Fx(65)
          /\ b["photo_count"] = 0
          /\ features = [b EXCEPT !["photo_count"] = Fx(5)]
    /\ score = Fx(75)

\* x is n/d rounded to two decimals
IsRounded(x, n, d) ==
    /\ x % 100 = 0
    /\ (x * d - n) * 2 <= 100 * d
    /\ (n - x * d) * 2 <= 100 * d

\* the raw score of the model path in the call that returned last
RawOfReturned == RawModelScore(returned.predict).v

C10_ScalarsUsedDirectly ==
    (HasReturned /\ returned.result.status = "success"
       /\ returned.predict.kind \in {"float", "npscalar"}) =>
        IsRounded(returned.result.original_score, returned.predict.v, 1)

\* C10 amended: a prediction that is a Python int or float is the raw score
\* as it is; any other prediction without a length (a numpy scalar that is
\* no Python float) is multiplied by 100; a prediction with a length gives
\* its second element multiplied by 100, and the emergency result when it
\* has no second element.
C10_RawScoreByType ==
    HasReturned =>
        /\ (returned.result.status = "success"
              /\ returned.predict.kind = "float") =>
              IsRounded(returned.result.original_score, returned.predict.v, 1)
        /\ (returned.result.status = "success"
              /\ returned.predict.kind = "npscalar") =>
              IsRounded(returned.result.original_score,
                        returned.predict.v * 100, 1)
        /\ returned.predict.kind = "vector" =>
              IF Len(returned.predict.vec) >= 2
              THEN /\ returned.result.status = "success"
                   /\ IsRounded(returned.result.original_score,
                                returned.predict.vec[2] * 100, 1)
              ELSE returned.result.status = "error"
        /\ returned.predict.kind \in {"float", "npscalar"} =>
              returned.result.status = "success"

\* C10's case: the model returned a numpy scalar and it was multiplied
C10_Witness ==
    /\ HasReturned
    /\ returned.predict.kind = "npscalar"
    /\ returned.result.status = "success"
    /\ returned.result.original_score = returned.predict.v * 100

\* the keys of a submission that extraction reads: its optional sections
OptionalSections ==
    {"project_name", "ecosystem_type", "area_hectares", "description",
     "project_description", "location", "ipfs_hashes", "media_files",
     "field_measurements"}

\* the submission of the call that returned last has none of them
NoOptionalSections ==
    /\ IsDict(returned.data)
    /\ DOMAIN returned.data.d \cap OptionalSections = {}

\* the documented defaults, in the order of the glossary
DefaultFeatures ==
    <<Fx(0), Fx(1), Fx(0), Fx(0), Fx(0), Fx(0), Fx(0), Fx(0), Fx(0),
      Dec(7, 0), Dec(25, 0), Dec(6, 0), Dec(2, 0), Dec(7, 0), Dec(15, 0)>>

\* C11: for a submission that has none of the optional sections, extraction
\* succeeds and returns exactly 15 features, in the order of the glossary,
\* each at its documented default; the result's feature_values names them
\* in that order.
C11_DefaultsForEmptySubmission ==
    (HasReturned /\ NoOptionalSections) =>
        /\ returned.extract.ok
        /\ Len(returned.extract.v) = 15
        /\ returned.extract.v = DefaultFeatures
        /\ DOMAIN returned.result.feature_values =
              {FeatureNames[i] : i \in 1..15}
        /\ \A i \in 1..15 :
              returned.result.feature_values[FeatureNames[i]] =
                  DefaultFeatures[i]

\* C11's case: a call with a submission that has fields, none of them one
\* extraction reads, has returned with the default features
C11_Witness ==
    /\ HasReturned
    /\ NoOptionalSections
    /\ DOMAIN returned.data.d # {}
    /\ returned.extract = Ok(DefaultFeatures)

\* in the call that returned last the model was invoked and predict returned
PredictReturned ==
    /\ HasReturned
    /\ returned.predict.kind \notin {"none", "raise"}

\* the call that returned last formed a score from the model's prediction:
\* a model-path result that is successful but for the probability step
ModelScoreFormed == PredictReturned /\ RawModelScore(returned.predict).ok

\* C12: in every result status is "success" exactly when model_used is
\* true; model_used is true only if a model handle was loaded and its
\* predict call returned; and whatever the optional probability step does,
\* failing included, a model-path result that is otherwise successful keeps
\* its quality_score, model_used true and status "success".
C12_ProvenanceConsistent ==
    HasReturned =>
        /\ (returned.result.status = "success") <=> returned.result.model_used
        /\ returned.result.model_used =>
              /\ UsesModel(model, model_available)
              /\ PredictReturned
        /\ ModelScoreFormed =>
              /\ returned.result.status = "success"
              /\ returned.result.model_used
              /\ returned.result.quality_score = EnhanceModel(RawOfReturned)
              /\ \A p \in ProbaOutcomes :
                    LET r == predict_quality_score(returned.extract,
                               feature_names, model, model_available,
                               returned.predict, p).result
                    IN  /\ r.quality_score = returned.result.quality_score
                        /\ r.model_used = returned.result.model_used
                        /\ r.status = returned.result.status

\* C12's case: the model has predict_proba, predict returned, predict_proba
\* raised, and the result is the successful model-path result
C12_Witness ==
    /\ ModelScoreFormed
    /\ HasPredictProba(model)
    /\ returned.proba = Raises
    /\ returned.result.status = "success"
    /\ returned.result.model_used
    /\ returned.result.predictions = <<>>

===========================================================================
